---- MODULE Spec2Model ----
(***************************************************************************)
(* MLB postseason calendar generator: the two script variants              *)
(*   MLB_API.py         class MLBPostseasonICSMaker  (variant "Maker")     *)
(*   MLB_PostSeason.py  class MLBPostseasonUpdater   (variant "Updater")   *)
(* modelled as state machines over a fetched batch of game records.        *)
(*                                                                         *)
(* Strings of the program are modelled by what the code reads of them:     *)
(*   - a timestamp string is a record holding its shape and its fields;    *)
(*     the character tests of the code ('Z' in s, '+' in s, s.count('-'),  *)
(*     'T' in s) and the parsers (strptime, fromisoformat) are operators   *)
(*     on that record;                                                     *)
(*   - a YYYYMMDDTHHMMSSZ stamp is the record of its six printed fields;   *)
(*   - a team name is the sequence of its words;                           *)
(*   - an f-string is the sequence of the pieces it concatenates.          *)
(* An optional value (None, or "" where the code tests truthiness) is a    *)
(* sequence of length 0, a present value a sequence of length 1.           *)
(***************************************************************************)
EXTENDS Integers, Sequences, FiniteSets, TLC

VARIABLES
    variant,      \* which script runs: "Maker" (MLB_API.py) or "Updater" (MLB_PostSeason.py)
    pc,           \* position of the process
    localOffset,  \* UTC offset (seconds) of the machine's local time zone
    day,          \* Updater.get_postseason_schedule: the day of the window being fetched
    fetchLog,     \* outcome of every schedule request made so far
    games,        \* the fetched batch of game records
    idx,          \* generate_ics_content: number of games already processed
    resolved,     \* the time resolver's last call: its arguments and the pair it returned
    ics_lines,    \* generate_ics_content: the lines built so far
    file,         \* the calendar file on disk: None (absent) or Some(lines)
    ret,          \* Maker.save_ics_file's return value: None until it returns
    exitCode,     \* None while running; Some(0) normal exit, Some(1) uncaught exception
    today,        \* MLB_PostSeason.py: datetime.now() at the start, as <<month, day>>
    watch,        \* MLB_PostSeason.py: args.watch
    cycle,        \* MLB_PostSeason.py: number of calls of update_ics_file begun (up to MaxCycles)
    file0,        \* the calendar file as it was when the current call of update_ics_file began
    interrupted,  \* watch_mode caught a KeyboardInterrupt (line 510)
    titled        \* the summary builder's last call: its game and what it built

vars == <<variant, pc, localOffset, day, fetchLog, games, idx, resolved, ics_lines, file, ret, exitCode,
          today, watch, cycle, file0, interrupted, titled>>

(***************************************************************************)
(* Calendar arithmetic (datetime, timedelta, strftime), year 2025.         *)
(* An instant is the number of seconds since 2025-01-01T00:00:00.          *)
(***************************************************************************)
MonthStart == <<0, 31, 59, 90, 120, 151, 181, 212, 243, 273, 304, 334, 365>>

DaySecs == 24 * 3600

\* datetime(2025, mo, d, h, mi, s) as a number of seconds
Secs(mo, d, h, mi, s) == (MonthStart[mo] + d - 1) * DaySecs + h * 3600 + mi * 60 + s

MonthOf(dayOfYear) == CHOOSE m \in 1..12 : MonthStart[m] <= dayOfYear /\ dayOfYear < MonthStart[m + 1]

\* dt.strftime('%Y%m%dT%H%M%SZ'): the printed fields of the instant t
strftime(t) ==
    LET n == t \div DaySecs
        r == t % DaySecs
        m == MonthOf(n)
    IN  [y |-> 2025, mo |-> m, d |-> n - MonthStart[m] + 1,
         h |-> r \div 3600, mi |-> (r % 3600) \div 60, s |-> r % 60]

(***************************************************************************)
(* pytz US/Eastern in autumn 2025: EDT (UTC-4) until 2025-11-02T06:00:00Z, *)
(* EST (UTC-5) from then on.                                               *)
(***************************************************************************)
DstEndUTC == Secs(11, 2, 6, 0, 0)

\* utc_dt.astimezone(et_tz): the Eastern wall clock of a UTC instant
astimezoneET(utc) == IF utc < DstEndUTC THEN utc - 4 * 3600 ELSE utc - 5 * 3600

\* et_tz.localize(naive) then .astimezone(UTC): the UTC instant of an Eastern
\* wall clock time; pytz resolves the repeated hour 01:00-02:00 of 2 November as EST
localizeET(wall) == IF wall < Secs(11, 2, 1, 0, 0) THEN wall + 4 * 3600 ELSE wall + 5 * 3600

\* faulty variant: the UTC calendar date is taken instead of the Eastern one
PlaceholderStart_UTCDate(utc) == localizeET((utc \div DaySecs) * DaySecs + 15 * 3600 + 8 * 60)

\* datetime.combine(et_date, time(15, 8)) localized: 15:08 Eastern on the Eastern
\* calendar date of the UTC instant, as a UTC instant
PlaceholderStart(utc) ==
    localizeET((astimezoneET(utc) \div DaySecs) * DaySecs + 15 * 3600 + 8 * 60)

(***************************************************************************)
(* Timestamp strings.  shape:                                              *)
(*   "Z"       2025-10-24T07:33:00Z                                        *)
(*   "offset"  2025-10-24T07:33:00+00:00 / -04:00   (off = offset seconds) *)
(*   "naive"   2025-10-24T07:33:00                                         *)
(*   "date"    2025-10-24                                                  *)
(*   "empty"   the empty string (or a missing key, which .get defaults)    *)
(*   "garbage" the text TBD                                                *)
(***************************************************************************)
TS(shape, mo, d, h, mi, s, off) ==
    [shape |-> shape, mo |-> mo, d |-> d, h |-> h, mi |-> mi, s |-> s, off |-> off]

EmptyTS == TS("empty", 0, 0, 0, 0, 0, 0)
GarbageTS == TS("garbage", 0, 0, 0, 0, 0, 0)

Truthy(ts) == ts.shape # "empty"
HasZ(ts) == ts.shape = "Z"
HasPlus(ts) == ts.shape = "offset" /\ ts.off >= 0
DashCount(ts) ==
    CASE ts.shape \in {"Z", "naive", "date"} -> 2
      [] ts.shape = "offset" -> IF ts.off < 0 THEN 3 ELSE 2
      [] OTHER -> 0
HasT(ts) == ts.shape \in {"Z", "offset", "naive", "garbage"}

\* A parse result: ok = FALSE is a raised ValueError; wall is the parsed wall clock,
\* aware says whether the datetime carries a UTC offset (off).
ParseError == [ok |-> FALSE, wall |-> 0, aware |-> FALSE, off |-> 0]
Parsed(wall, aware, off) == [ok |-> TRUE, wall |-> wall, aware |-> aware, off |-> off]

\* datetime.strptime(s, "%Y-%m-%dT%H:%M:%SZ")
strptimeZ(ts) ==
    IF ts.shape = "Z" THEN Parsed(Secs(ts.mo, ts.d, ts.h, ts.mi, ts.s), FALSE, 0)
    ELSE ParseError

\* datetime.strptime(s, '%Y-%m-%d')
strptimeDate(ts) ==
    IF ts.shape = "date" THEN Parsed(Secs(ts.mo, ts.d, 0, 0, 0), FALSE, 0)
    ELSE ParseError

\* datetime.fromisoformat(s) and datetime.fromisoformat(s.replace('Z', '+00:00'))
fromisoformat(ts) ==
    CASE ts.shape = "offset" -> Parsed(Secs(ts.mo, ts.d, ts.h, ts.mi, ts.s), TRUE, ts.off)
      [] ts.shape = "naive" -> Parsed(Secs(ts.mo, ts.d, ts.h, ts.mi, ts.s), FALSE, 0)
      [] ts.shape = "date" -> Parsed(Secs(ts.mo, ts.d, 0, 0, 0), FALSE, 0)
      [] OTHER -> ParseError

replaceZ(ts) == IF ts.shape = "Z" THEN [ts EXCEPT !.shape = "offset", !.off = 0] ELSE ts

(***************************************************************************)
(* Team names: sequences of words.                                         *)
(***************************************************************************)
PlaceholderKeywords == {"TBD", "Winner", "Lower", "Higher"}

\* any(keyword in name for keyword in ("TBD", "Winner", "Lower", "Higher"))
HasPlaceholder(name) == \E i \in 1..Len(name) : name[i] \in PlaceholderKeywords

None == <<>>
Some(x) == <<x>>

(***************************************************************************)
(* Time Resolver, MLB_PostSeason.py: format_game_time                      *)
(***************************************************************************)
\* lines 140-201: the datetime dt the branches build, as a UTC instant;
\* None when a parser raises (caught at line 224)
UpdaterStart(ts, away_team, home_team) ==
    IF ~Truthy(ts) \/ HasPlaceholder(away_team) \/ HasPlaceholder(home_team)
    THEN \* lines 143-158
         LET p == strptimeZ(ts)
         IN  IF p.ok THEN Some(PlaceholderStart(p.wall)) ELSE None
    ELSE IF HasZ(ts)
    THEN \* lines 166-185
         LET p == strptimeZ(ts)
         IN  IF ~p.ok THEN None
             ELSE IF (p.wall % 3600) \div 60 = 33
                  THEN Some(PlaceholderStart(p.wall))
                  ELSE LET q == fromisoformat(replaceZ(ts))
                       IN  IF q.ok THEN Some(q.wall - q.off) ELSE None
    ELSE IF HasPlus(ts) \/ DashCount(ts) > 2
    THEN \* lines 187-189
         LET q == fromisoformat(ts)
         IN  IF q.ok THEN Some(q.wall - q.off) ELSE None
    ELSE IF HasT(ts)
    THEN \* lines 191-196: no offset, read as UTC
         LET q == fromisoformat(ts)
         IN  IF q.ok THEN Some(q.wall - q.off) ELSE None
    ELSE \* lines 198-201: bare date, 15:08 Eastern
         LET p == strptimeDate(ts)
         IN  IF p.ok THEN Some(localizeET(p.wall + 15 * 3600 + 8 * 60)) ELSE None

\* line 215: end_time = (dt_utc + timedelta(hours=3, minutes=30)).strftime(...)
UpdaterEnd(dt_utc) == strftime(dt_utc + 3 * 3600 + 30 * 60)

format_game_time(ts, away_team, home_team) ==
    LET dt == UpdaterStart(ts, away_team, home_team)
    IN  IF dt = None
        THEN [start |-> None, end |-> None]
        ELSE [start |-> Some(strftime(dt[1])), end |-> Some(UpdaterEnd(dt[1]))]

(***************************************************************************)
(* Time Resolver, MLB_API.py: get_game_date_time                           *)
(***************************************************************************)
\* game_date.astimezone(pytz.UTC): an aware datetime is shifted by its offset, a
\* naive one is read as the machine's local time
astimezoneUTC(p, local) == IF p.aware THEN p.wall - p.off ELSE p.wall - local

\* lines 147-150: next_day.replace(hour=0, minute=8, second=0, microsecond=0)
NextDay0008(p) == [p EXCEPT !.wall = ((p.wall + DaySecs) \div DaySecs) * DaySecs + 8 * 60]

\* faulty variant: three hours are added to the hour field, without carry into the date
MakerEnd_NoCarry(utc_time) == [strftime(utc_time) EXCEPT !.h = (@ + 3) % 24]

\* lines 157, 178: end_time = utc_time + timedelta(hours=3)
MakerEnd(utc_time) == strftime(utc_time + 3 * 3600)

get_game_date_time(g, local) ==
    LET p == fromisoformat(replaceZ(g.game_datetime))
        q == IF g.startTimeTBD THEN NextDay0008(p) ELSE p
        utc_time == astimezoneUTC(q, local)
    IN  IF ~Truthy(g.game_datetime) \/ ~p.ok
        THEN [start |-> None, end |-> None]
        ELSE [start |-> Some(strftime(utc_time)), end |-> Some(MakerEnd(utc_time))]

(***************************************************************************)
(* Text pieces.  A rendered text is the sequence of the pieces the         *)
(* f-string concatenates; numbers are printed with ToString.               *)
(***************************************************************************)
\* " ".join(words)
Join(words) ==
    IF Len(words) = 0 THEN <<>>
    ELSE [i \in 1..(2 * Len(words) - 1) |-> IF i % 2 = 1 THEN words[(i + 1) \div 2] ELSE " "]

\* a raised exception that the function does not catch
Raised == [ok |-> FALSE, text |-> <<>>]
Returned(text) == [ok |-> TRUE, text |-> text]

(***************************************************************************)
(* Series/Summary Builder, MLB_API.py: get_series_name, get_description    *)
(***************************************************************************)
\* line 95, 206: "F" in status_code
IsFinishedCode(status_code) == status_code \in {"F", "FR", "FO"}

\* faulty variant: the Leads marker names the other side
SeriesRecord_OtherSide(g) ==
    IF g.gamesInSeries = None THEN None
    ELSE LET wins_needed == (g.gamesInSeries[1] \div 2) + 1
             tally == <<"(", ToString(g.away_wins), "-", ToString(g.home_wins), ")">>
         IN  Some(IF g.away_wins > g.home_wins
                  THEN IF g.away_wins >= wins_needed
                       THEN <<" ", "TROPHY", " ", g.away_short, " ", "Wins">>
                       ELSE tally \o <<" ", g.home_short, " ", "Leads">>
                  ELSE IF g.home_wins > g.away_wins
                  THEN IF g.home_wins >= wins_needed
                       THEN <<" ", "TROPHY", " ", g.home_short, " ", "Wins">>
                       ELSE tally \o <<" ", g.away_short, " ", "Leads">>
                  ELSE tally \o <<" ", " ", "Tied", " ", g.away_abbr, "-", g.home_abbr>>)

\* faulty variant: a side has won only with more wins than the threshold
SeriesRecord_PastThreshold(g) ==
    IF g.gamesInSeries = None THEN None
    ELSE LET wins_needed == (g.gamesInSeries[1] \div 2) + 1
             tally == <<"(", ToString(g.away_wins), "-", ToString(g.home_wins), ")">>
         IN  Some(IF g.away_wins > g.home_wins
                  THEN IF g.away_wins > wins_needed
                       THEN <<" ", "TROPHY", " ", g.away_short, " ", "Wins">>
                       ELSE tally \o <<" ", g.away_short, " ", "Leads">>
                  ELSE IF g.home_wins > g.away_wins
                  THEN IF g.home_wins > wins_needed
                       THEN <<" ", "TROPHY", " ", g.home_short, " ", "Wins">>
                       ELSE tally \o <<" ", g.home_short, " ", "Leads">>
                  ELSE tally \o <<" ", " ", "Tied", " ", g.away_abbr, "-", g.home_abbr>>)

\* lines 80-92; None when gamesInSeries is missing ({} // 2 raises TypeError)
SeriesRecord(g) ==
    IF g.gamesInSeries = None THEN None
    ELSE LET wins_needed == (g.gamesInSeries[1] \div 2) + 1
             tally == <<"(", ToString(g.away_wins), "-", ToString(g.home_wins), ")">>
         IN  Some(IF g.away_wins > g.home_wins
                  THEN IF g.away_wins >= wins_needed
                       THEN <<" ", "TROPHY", " ", g.away_short, " ", "Wins">>
                       ELSE tally \o <<" ", g.away_short, " ", "Leads">>
                  ELSE IF g.home_wins > g.away_wins
                  THEN IF g.home_wins >= wins_needed
                       THEN <<" ", "TROPHY", " ", g.home_short, " ", "Wins">>
                       ELSE tally \o <<" ", g.home_short, " ", "Leads">>
                  ELSE tally \o <<" ", " ", "Tied", " ", g.away_abbr, "-", g.home_abbr>>)

\* faulty variant: the Wild Card is taken for the World Series
MakerSeriesType_WildCardAsWS(game_type) ==
    CASE game_type = "F" -> Some("WS")
      [] game_type = "D" -> Some("DS")
      [] game_type = "L" -> Some("CS")
      [] game_type = "W" -> Some("WS")
      [] OTHER -> None

\* lines 103-115: the series type of the game type code, None when it has none
MakerSeriesType(game_type) ==
    CASE game_type = "F" -> Some("WC")
      [] game_type = "D" -> Some("DS")
      [] game_type = "L" -> Some("CS")
      [] game_type = "W" -> Some("WS")
      [] OTHER -> None

\* the league abbreviation as text: the empty string prints nothing
LeagueText(league) == IF league = "" THEN <<>> ELSE <<league>>

Maker_get_series_name(g) ==
    LET series_record == SeriesRecord(g)
        is_finished == IsFinishedCode(g.statusCode)
        team_score == IF is_finished THEN <<>> ELSE <<g.away_short, " ", "-", " ", g.home_short>>
        series_type == MakerSeriesType(g.game_type)
        series_prefix ==
            IF series_type = Some("WS")
            THEN <<series_type[1], ToString(g.series_game_number)>>
            ELSE LeagueText(g.league) \o <<series_type[1], ToString(g.series_game_number)>>
    IN  IF series_record = None THEN Raised
        ELSE IF series_type = None THEN Returned(team_score)
        ELSE IF is_finished THEN Returned(series_prefix \o series_record[1] \o <<" ">> \o team_score)
        ELSE Returned(series_prefix \o <<" ">> \o team_score)

\* faulty variant: the runs are left out of the description
get_description_NoScore(g) == <<g.away_short, " ", "-", " ", g.home_short>>

\* lines 188-210
get_description(g) ==
    IF IsFinishedCode(g.statusCode)
    THEN <<g.away_short, " ", ToString(g.away_score), " ", "-", " ",
           g.home_short, " ", ToString(g.home_score)>>
    ELSE <<g.away_short, " ", "-", " ", g.home_short>>

(***************************************************************************)
(* Series/Summary Builder, MLB_PostSeason.py                               *)
(***************************************************************************)
\* 'American League' in series_desc or 'AL' in series_desc
MentionsAL(series_desc) ==
    \/ \E i \in 1..Len(series_desc) : series_desc[i] \in {"AL", "ALDS", "ALCS"}
    \/ \E i \in 1..(Len(series_desc) - 1) : series_desc[i] = "American" /\ series_desc[i + 1] = "League"

\* 'National League' in series_desc or 'NL' in series_desc
MentionsNL(series_desc) ==
    \/ \E i \in 1..Len(series_desc) : series_desc[i] \in {"NL", "NLDS", "NLCS"}
    \/ \E i \in 1..(Len(series_desc) - 1) : series_desc[i] = "National" /\ series_desc[i + 1] = "League"

Updater_get_series_name(game_type, series_desc) ==
    LET series_name ==
            CASE game_type = "F" -> <<"WC">>
              [] game_type = "D" -> <<"DS">>
              [] game_type = "L" -> <<"CS">>
              [] game_type = "W" -> <<"WS">>
              [] OTHER -> <<"Postseason">>
    IN  IF Len(series_desc) > 0 /\ MentionsAL(series_desc) /\ game_type = "D" THEN <<"AL", "DS">>
        ELSE IF Len(series_desc) > 0 /\ MentionsAL(series_desc) /\ game_type = "L" THEN <<"AL", "CS">>
        ELSE IF Len(series_desc) > 0 /\ ~MentionsAL(series_desc) /\ MentionsNL(series_desc)
                /\ game_type = "D" THEN <<"NL", "DS">>
        ELSE IF Len(series_desc) > 0 /\ ~MentionsAL(series_desc) /\ MentionsNL(series_desc)
                /\ game_type = "L" THEN <<"NL", "CS">>
        ELSE series_name

\* lines 289-299: the lookup table
special_cases(name) ==
    CASE name = <<"Los", "Angeles", "Dodgers">> -> Some(<<"LA", "Dodgers">>)
      [] name = <<"Los", "Angeles", "Angels">> -> Some(<<"LA", "Angels">>)
      [] name = <<"New", "York", "Yankees">> -> Some(<<"NY", "Yankees">>)
      [] name = <<"New", "York", "Mets">> -> Some(<<"NY", "Mets">>)
      [] name = <<"Chicago", "White", "Sox">> -> Some(<<"Chi", "White", "Sox">>)
      [] name = <<"Chicago", "Cubs">> -> Some(<<"Chi", "Cubs">>)
      [] name = <<"San", "Francisco", "Giants">> -> Some(<<"SF", "Giants">>)
      [] name = <<"San", "Diego", "Padres">> -> Some(<<"San", "Diego">>)
      [] name = <<"Tampa", "Bay", "Rays">> -> Some(<<"Tampa", "Bay">>)
      [] OTHER -> None

\* words[0].endswith('.')
EndsWithDot(word) == word \in {"St.", "Ft.", "Mt."}

\* Raised when words is empty and words[0] is read (IndexError)
get_team_location(full_team_name) ==
    LET words == full_team_name
    IN  IF special_cases(full_team_name) # None THEN Returned(special_cases(full_team_name)[1])
        ELSE IF Len(words) > 1 /\ EndsWithDot(words[1]) THEN Returned(<<words[1], words[2]>>)
        ELSE IF HasPlaceholder(full_team_name) THEN Returned(full_team_name)
        ELSE IF Len(words) = 0 THEN Raised
        ELSE Returned(<<words[1]>>)

\* line 277, 337: status in ['Final', 'Game Over']
IsFinalStatus(status) == status \in {"Final", "Game Over"}

create_event_summary(g) ==
    LET away_team == get_team_location(g.away_name)
        home_team == get_team_location(g.home_name)
        series_name == Updater_get_series_name(g.game_type, g.series_description)
        head == series_name \o <<" ", ToString(g.series_game_number), ":", " ">>
    IN  IF ~away_team.ok \/ ~home_team.ok THEN Raised
        ELSE IF IsFinalStatus(g.status)
        THEN Returned(<<"CHECK", " ">> \o head
                      \o Join(away_team.text) \o <<" ", ToString(g.away_score), " ", "@", " ">>
                      \o Join(home_team.text) \o <<" ", ToString(g.home_score)>>)
        ELSE Returned(head \o Join(away_team.text) \o <<" ", "@", " ">> \o Join(home_team.text))

create_event_description(g) ==
    (IF Len(g.series_description) > 0
     THEN <<"Series: ">> \o Join(g.series_description) \o <<"\\n">> ELSE <<>>)
    \o <<"Game Type: ", g.game_type, "\\n", "Status: ", g.status, "\\n", "Venue: ", g.venue_name>>
    \o (IF IsFinalStatus(g.status)
        THEN <<"\\n", "\\nFinal Score:", "\\n">> \o Join(g.away_name)
             \o <<": ", ToString(g.away_score), "\\n">> \o Join(g.home_name)
             \o <<": ", ToString(g.home_score)>>
        ELSE <<>>)

(***************************************************************************)
(* Game records.  One flat record carries the fields either script reads   *)
(* of an upstream game: MLB_API.py reads the raw schedule JSON,            *)
(* MLB_PostSeason.py the flattened records of statsapi.schedule().         *)
(***************************************************************************)
Team(name, short, abbr, league) == [name |-> name, short |-> short, abbr |-> abbr, league |-> league]

\* the runs of a game that is under way or over are 11 (away) and 12 (home): numbers
\* that no win count and no series game number takes
BOS == Team(<<"Boston", "Red", "Sox">>, "Boston", "BOS", "AL")
NYY == Team(<<"New", "York", "Yankees">>, "NY Yankees", "NYY", "AL")
TBDTeam == Team(<<"TBD">>, "TBD", "TBD", "")
SeedTeam == Team(<<"AL", "Higher", "Seed">>, "AL Higher Seed", "TBD", "AL")
NoNameTeam == Team(<<>>, "", "", "AL")
STL == Team(<<"St.", "Louis", "Cardinals">>, "St. Louis", "STL", "NL")
LAD == Team(<<"Los", "Angeles", "Dodgers">>, "LA Dodgers", "LAD", "NL")
TOR == Team(<<"Toronto", "Blue", "Jays">>, "Toronto", "TOR", "AL")
ATH == Team(<<"Athletics">>, "Athletics", "ATH", "AL")
WinnerTeam == Team(<<"ALDS", "Winner">>, "ALDS Winner", "TBD", "AL")
NoLeagueTeam == Team(<<"Boston", "Red", "Sox">>, "Boston", "BOS", "")

StatusOf(code) ==
    CASE code = "F" -> "Final"
      [] code = "I" -> "In Progress"
      [] OTHER -> "Scheduled"

MkGame(ts, game_date, away, home, game_type, code, tbd, aw, hw, gis, desc) ==
    [game_id |-> 0, game_type |-> game_type, statusCode |-> code, status |-> StatusOf(code),
     startTimeTBD |-> tbd, game_datetime |-> ts, game_date |-> game_date,
     away_name |-> away.name, home_name |-> home.name,
     away_short |-> away.short, home_short |-> home.short,
     away_abbr |-> away.abbr, home_abbr |-> home.abbr, league |-> home.league,
     away_wins |-> aw, home_wins |-> hw,
     away_score |-> IF code \in {"F", "I"} THEN 11 ELSE 0,
     home_score |-> IF code \in {"F", "I"} THEN 12 ELSE 0,
     series_game_number |-> aw + hw + 1, gamesInSeries |-> gis,
     series_description |-> desc, venue_name |-> "Fenway Park"]

ALDSDesc == <<"AL", "Division", "Series">>

\* the timestamps of the time resolver's inputs
TimeDays == {<<10, 15>>, <<10, 31>>, <<11, 1>>, <<11, 2>>}
TimeHours == {0, 3, 5, 7, 19, 23}
TimeMinutes == {8, 33}
DateTimes ==
    {TS(sh[1], dm[1], dm[2], h, mi, 0, sh[2]) :
        sh \in {<<"Z", 0>>, <<"naive", 0>>, <<"offset", 0>>, <<"offset", 0 - 4 * 3600>>},
        dm \in TimeDays, h \in TimeHours, mi \in TimeMinutes}
Dates == {TS("date", dm[1], dm[2], 0, 0, 0, 0) : dm \in TimeDays}
Timestamps == DateTimes \cup Dates \cup {EmptyTS, GarbageTS}

TimeGames ==
    {MkGame(ts, EmptyTS, tm[1], tm[2], "D", "S", tbd, 0, 0, Some(5), ALDSDesc) :
        ts \in Timestamps, tm \in {<<BOS, NYY>>, <<TBDTeam, NYY>>, <<BOS, SeedTeam>>},
        tbd \in BOOLEAN}
    \cup {MkGame(EmptyTS, d, tm[1], tm[2], "D", "S", FALSE, 0, 0, Some(5), ALDSDesc) :
        d \in Dates, tm \in {<<BOS, NYY>>, <<TBDTeam, NYY>>}}

GoodTS == TS("Z", 10, 15, 23, 8, 0, 0)
LateTS == TS("Z", 10, 31, 22, 8, 0, 0)

SummaryGames ==
    {MkGame(GoodTS, EmptyTS, BOS, NYY, ty, code, FALSE, aw, hw, Some(gis), desc) :
        ty \in {"F", "D", "W"}, code \in {"S", "F"}, aw \in 0..3, hw \in 0..3,
        gis \in {3, 5}, desc \in {<<>>, ALDSDesc}}

NLDSDesc == <<"NL", "Division", "Series">>
WorldSeriesDesc == <<"World", "Series">>

\* the games of the series code: every postseason type, leagues AL, NL and none
CodeGames ==
    {MkGame(GoodTS, EmptyTS, BOS, home, ty, code, FALSE, 1, 0, Some(5), desc) :
        home \in {NYY, STL, NoLeagueTeam}, ty \in {"F", "D", "L", "W"}, code \in {"S", "I", "F"},
        desc \in {<<>>, ALDSDesc, NLDSDesc, WorldSeriesDesc}}

\* the games of the series record: every win count up to four, best of 3, 5 and 7
MarkerGames ==
    {MkGame(GoodTS, EmptyTS, BOS, NYY, "L", code, FALSE, aw, hw, Some(gis), <<>>) :
        code \in {"S", "F"}, aw \in 0..4, hw \in 0..4, gis \in {3, 5, 7}}

\* the games of the team names
NameGames ==
    {MkGame(GoodTS, EmptyTS, tm[1], tm[2], "D", code, FALSE, 0, 0, Some(5), ALDSDesc) :
        tm \in {<<STL, LAD>>, <<TOR, ATH>>, <<WinnerTeam, STL>>, <<LAD, TBDTeam>>, <<ATH, TOR>>},
        code \in {"S", "F"}}

\* the games of the batches of several games
SmallGames ==
    {MkGame(GoodTS, EmptyTS, BOS, NYY, "D", "S", FALSE, 1, 1, Some(5), ALDSDesc),
     MkGame(LateTS, EmptyTS, NYY, BOS, "D", "F", FALSE, 2, 1, Some(5), ALDSDesc),
     MkGame(EmptyTS, EmptyTS, BOS, NYY, "D", "S", FALSE, 0, 0, Some(5), ALDSDesc),
     MkGame(GoodTS, EmptyTS, TBDTeam, NYY, "L", "S", TRUE, 0, 0, Some(7), <<>>),
     MkGame(GarbageTS, EmptyTS, BOS, NYY, "D", "S", FALSE, 0, 0, Some(5), ALDSDesc),
     MkGame(GoodTS, EmptyTS, BOS, NYY, "D", "S", FALSE, 0, 0, None, ALDSDesc),
     MkGame(GoodTS, EmptyTS, NoNameTeam, NYY, "D", "S", FALSE, 0, 0, Some(5), ALDSDesc),
     MkGame(GoodTS, EmptyTS, BOS, NYY, "R", "S", FALSE, 0, 0, Some(5), <<>>)}

\* most games of one fetched batch
MaxGames == 2

SeqsUpTo(S, n) == UNION {[1..k -> S] : k \in 0..n}

\* the upstream's game ids (gamePk) are unique: the batch's games get ids base+1, base+2, ...
WithIds(batch, base) == [i \in 1..Len(batch) |-> [batch[i] EXCEPT !.game_id = base + i]]

\* the greatest id handed out so far
LastId(have) == IF have = <<>> THEN 0 ELSE have[Len(have)].game_id

\* what one schedule request can answer with when the batch holds `have` already:
\* up to MaxGames games in all; a game of the large input sets comes alone
Batches(have) ==
    IF have = <<>>
    THEN SeqsUpTo(SmallGames, MaxGames)
         \cup {<<g>> : g \in TimeGames \cup SummaryGames \cup CodeGames \cup MarkerGames \cup NameGames}
    ELSE IF \E i \in 1..Len(have) : [have[i] EXCEPT !.game_id = 0] \notin SmallGames
    THEN {<<>>}
    ELSE SeqsUpTo(SmallGames, MaxGames - Len(have))

\* days of the fetch window (30 September to 2 November in the code)
MaxDays == 2

\* the games the upstream holds while the script runs in watch mode, or is started on
\* another day than 15 October
WatchGames ==
    {MkGame(GoodTS, EmptyTS, BOS, NYY, "D", "S", FALSE, 1, 1, Some(5), ALDSDesc),
     MkGame(LateTS, EmptyTS, NYY, BOS, "D", "F", FALSE, 2, 1, Some(5), ALDSDesc),
     MkGame(GoodTS, EmptyTS, NoNameTeam, NYY, "D", "S", FALSE, 0, 0, Some(5), ALDSDesc)}

\* of these, one request answers with one game at most, and one call of update_ics_file
\* gets one game at most
WatchBatches(have) == IF have = <<>> THEN {<<>>} \cup {<<g>> : g \in WatchGames} ELSE {<<>>}

\* the cycles of watch mode that are counted
MaxCycles == 2

\* the dates the script is started on
StartDates == {<<1, 2>>, <<9, 3>>, <<9, 27>>, <<9, 28>>, <<10, 15>>, <<11, 3>>, <<11, 4>>, <<12, 28>>}

\* what one schedule request of MLB_PostSeason.py can answer with
Upstream(have, inWatch, date) ==
    IF inWatch \/ date # <<10, 15>> THEN WatchBatches(have) ELSE Batches(have)

LocalOffsets == {0, 9 * 3600}

(***************************************************************************)
(* ICS lines: k is the property name (or the whole fixed line), v its value*)
(***************************************************************************)
Line(k, v) == [k |-> k, v |-> v]
Fixed(k) == Line(k, <<>>)

Header ==
    <<Fixed("BEGIN:VCALENDAR"), Fixed("VERSION:2.0"),
      Fixed("PRODID:-//MLB 2025 Postseason Auto-Updated//EN"), Fixed("CALSCALE:GREGORIAN"),
      Fixed("METHOD:PUBLISH"), Fixed("X-WR-CALNAME:MLB 2025 Postseason"),
      Fixed("X-WR-TIMEZONE:UTC"), Fixed("X-PUBLISHED-TTL:PT1H")>>

Footer == <<Fixed(""), Fixed("END:VCALENDAR")>>

\* faulty variant: the END:VEVENT line is missing
VEvent_NoEnd(game_id, start_time, end_time, summary, location, description) ==
    <<Fixed(""), Fixed("BEGIN:VEVENT"), Line("UID", <<game_id>>), Line("DTSTAMP", <<>>),
      Line("DTSTART", start_time), Line("DTEND", end_time), Line("SUMMARY", summary),
      Line("LOCATION", <<location>>), Line("DESCRIPTION", description),
      Fixed("STATUS:CONFIRMED")>>

\* the eleven lines of one event; DTSTAMP is the render time (the clock is not modelled)
VEvent(game_id, start_time, end_time, summary, location, description) ==
    <<Fixed(""), Fixed("BEGIN:VEVENT"), Line("UID", <<game_id>>), Line("DTSTAMP", <<>>),
      Line("DTSTART", start_time), Line("DTEND", end_time), Line("SUMMARY", summary),
      Line("LOCATION", <<location>>), Line("DESCRIPTION", description),
      Fixed("STATUS:CONFIRMED"), Fixed("END:VEVENT")>>

\* a calendar file left by an earlier run
StaleFile == <<Fixed("BEGIN:VCALENDAR"), Fixed("END:VCALENDAR")>>

\* the summary builder has not been called; a call: the game, the texts built (None when
\* an exception came first), and for MLB_PostSeason.py what get_team_location returned
NoTitle ==
    [called |-> FALSE, game_id |-> 0, summary |-> None, description |-> None,
     away_location |-> None, home_location |-> None]
Title(g, summary, description, away_location, home_location) ==
    [called |-> TRUE, game_id |-> g.game_id, summary |-> summary, description |-> description,
     away_location |-> away_location, home_location |-> home_location]

NoCall == [called |-> FALSE, ts |-> EmptyTS, away |-> <<>>, home |-> <<>>, start |-> None, end |-> None]
Call(ts, away, home, t) ==
    [called |-> TRUE, ts |-> ts, away |-> away, home |-> home, start |-> t.start, end |-> t.end]

Init ==
    /\ variant \in {"Maker", "Updater"}
    /\ pc = IF variant = "Maker" THEN "start" ELSE "boot"
    /\ today \in (IF variant = "Maker" THEN {<<10, 15>>} ELSE StartDates)
    /\ watch \in (IF variant = "Maker" THEN {FALSE} ELSE BOOLEAN)
    /\ cycle = 0
    /\ interrupted = FALSE
    /\ titled = NoTitle
    /\ localOffset \in (IF variant = "Maker" THEN LocalOffsets ELSE {0})
    /\ day = 1
    /\ fetchLog = <<>>
    /\ games = <<>>
    /\ idx = 0
    /\ resolved = NoCall
    /\ ics_lines = <<>>
    /\ file \in {None, Some(StaleFile)}
    /\ file0 = file
    /\ ret = None
    /\ exitCode = None

(***************************************************************************)
(* MLB_API.py                                                              *)
(***************************************************************************)
\* lines 41-46: except RequestException / JSONDecodeError / Exception
MakerCatches(kind) == kind \in {"network", "http"} \/ kind = "json"

\* get_postseason_schedule, lines 18-47: one request; every exception of the request,
\* of raise_for_status and of response.json() is caught and {} is returned
\* "network": requests.get raises; "http": raise_for_status raises on a non-2xx status;
\* "json": response.json() raises on a malformed body
Maker_get_postseason_schedule ==
    /\ variant = "Maker" /\ pc = "start"
    /\ \E kind \in {"ok", "network", "http", "json"} :
        \E b \in (IF kind = "ok" THEN Batches(<<>>) ELSE {<<>>}) :
            /\ games' = WithIds(b, 0)
            /\ fetchLog' = Append(fetchLog, [kind |-> kind, n |-> Len(b), via |-> "single"])
            /\ IF kind = "ok" \/ MakerCatches(kind)
               THEN /\ pc' = "generate"
                    /\ ics_lines' = Header
                    /\ UNCHANGED exitCode
               ELSE /\ pc' = "done"
                    /\ exitCode' = Some(1)
                    /\ UNCHANGED ics_lines
    /\ UNCHANGED <<variant, localOffset, day, idx, resolved, file, ret>>
    /\ UNCHANGED <<today, watch, cycle, file0, interrupted, titled>>

\* faulty variant: the check of line 259 is missing
MakerSkips_NoCheck(start_time, end_time) == FALSE

\* line 259: if not start_time or not end_time
MakerSkips(start_time, end_time) == start_time = None \/ end_time = None

\* makeViewModel, lines 212-226, on one game: None when get_series_name raises
makeViewModel(g, local) ==
    LET summary == Maker_get_series_name(g)
        t == get_game_date_time(g, local)
    IN  IF ~summary.ok THEN None
        ELSE Some([game_PK |-> g.game_id, game_start_time |-> t.start, game_end_time |-> t.end,
                   description |-> get_description(g), location |-> g.venue_name,
                   summary |-> summary.text])

\* generate_ics_content, lines 242-278: one turn of the loop; an exception leaves
\* generate_ics_content and is caught by save_ics_file (lines 310-312)
Maker_generate_step ==
    /\ variant = "Maker" /\ pc = "generate" /\ idx < Len(games)
    /\ LET g == games[idx + 1]
           game_info == makeViewModel(g, localOffset)
       IN  IF game_info = None
           THEN /\ pc' = "saved"
                /\ ret' = Some(FALSE)
                /\ titled' = Title(g, None, None, None, None)
                /\ UNCHANGED <<idx, resolved, ics_lines>>
           ELSE LET v == game_info[1]
                IN  /\ titled' = Title(g, Some(v.summary), Some(v.description), None, None)
                    /\ resolved' = Call(g.game_datetime, g.away_name, g.home_name,
                                        [start |-> v.game_start_time, end |-> v.game_end_time])
                    /\ ics_lines' =
                         IF MakerSkips(v.game_start_time, v.game_end_time)
                         THEN ics_lines
                         ELSE ics_lines \o VEvent(v.game_PK, v.game_start_time, v.game_end_time,
                                                  v.summary, v.location, v.description)
                    /\ idx' = idx + 1
                    /\ UNCHANGED <<pc, ret>>
    /\ UNCHANGED <<variant, localOffset, day, fetchLog, games, file, exitCode>>
    /\ UNCHANGED <<today, watch, cycle, file0, interrupted>>

\* the ways open(...)/f.write(...) can end: written, open() raises (the file is left
\* as it was), write() raises after open() truncated the file
WriteOutcomes == {"ok", "open_fails", "write_fails"}

\* faulty variant: the file is opened for appending
FileAfter_Append(outcome, old, content) ==
    CASE outcome = "ok" -> Some((IF old = None THEN <<>> ELSE old[1]) \o content)
      [] outcome = "open_fails" -> old
      [] OTHER -> old

FileAfter(outcome, old, content) ==
    CASE outcome = "ok" -> Some(content)
      [] outcome = "open_fails" -> old
      [] OTHER -> Some(<<>>)

\* save_ics_file, lines 280-312: the end of generate_ics_content and the write
Maker_save_ics_file ==
    /\ variant = "Maker" /\ pc = "generate" /\ idx = Len(games)
    /\ ics_lines' = ics_lines \o Footer
    /\ \E outcome \in WriteOutcomes :
        /\ file' = FileAfter(outcome, file, ics_lines')
        /\ ret' = Some(outcome = "ok")
    /\ pc' = "saved"
    /\ UNCHANGED <<variant, localOffset, day, fetchLog, games, idx, resolved, exitCode>>
    /\ UNCHANGED <<today, watch, cycle, file0, interrupted, titled>>

\* main, lines 347-350: prints the outcome and returns
Maker_exit ==
    /\ variant = "Maker" /\ pc = "saved"
    /\ pc' = "done"
    /\ exitCode' = Some(0)
    /\ UNCHANGED <<variant, localOffset, day, fetchLog, games, idx, resolved, ics_lines, file, ret>>
    /\ UNCHANGED <<today, watch, cycle, file0, interrupted, titled>>

(***************************************************************************)
(* MLB_PostSeason.py                                                       *)
(***************************************************************************)
\* line 45: game_type in self.postseason_game_types
IsPostseasonType(game_type) == game_type \in {"F", "D", "L", "W"}

\* faulty variant: the handler of line 56 is missing
UpdaterCatches_Nothing(kind) == FALSE

\* line 56: except Exception
UpdaterCatches(kind) == TRUE

\* faulty variant: the check of line 376 is missing
UpdaterSkips_NoCheck(start_time, end_time) == FALSE

\* line 376: if not start_time
UpdaterSkips(start_time, end_time) == start_time = None

\* faulty variant: every batch is taken for an empty one
NoGames_Always(batch) == TRUE

\* lines 413 and 418: if not games
NoGames(batch) == batch = <<>>

\* get_postseason_schedule, lines 31-59: one turn of the per-day loop; an exception of
\* statsapi.schedule is caught (line 56) and the loop goes on to the next day
Updater_fetch_day ==
    /\ variant = "Updater" /\ pc \in {"start", "fetch"} /\ day <= MaxDays
    /\ \E kind \in {"ok", "error"} :
        \E b \in (IF kind # "ok" THEN {<<>>} ELSE Upstream(games, watch, today)) :
            /\ games' = games \o SelectSeq(WithIds(b, LastId(games)),
                                           LAMBDA g : IsPostseasonType(g.game_type))
            /\ fetchLog' = Append(fetchLog, [kind |-> kind, n |-> Len(games') - Len(games), via |-> "daily"])
            /\ IF kind = "ok" \/ UpdaterCatches(kind)
               THEN /\ day' = day + 1
                    /\ pc' = IF day < MaxDays THEN "fetch"
                             ELSE IF NoGames(games') THEN "alt" ELSE "found"
                    /\ UNCHANGED exitCode
               ELSE /\ pc' = "done"
                    /\ exitCode' = Some(1)
                    /\ UNCHANGED day
    /\ UNCHANGED <<variant, localOffset, idx, resolved, ics_lines, file, ret>>
    /\ UNCHANGED <<today, watch, cycle, file0, interrupted, titled>>

\* parse_game_data, lines 98-135: the flat record of a raw game; gameDate fills both
\* game_date and game_datetime
parse_game_data(g) == [g EXCEPT !.game_date = g.game_datetime]

\* line 93: except Exception
AlternativeCatches(kind) == TRUE

\* get_alternative_schedule, lines 63-96, called when the per-day fetch found nothing
\* (lines 413-416); then lines 418-424: return when there is still no game
Updater_get_alternative_schedule ==
    /\ variant = "Updater" /\ pc = "alt"
    /\ \E kind \in {"ok", "error"} :
        \E b \in (IF kind # "ok" THEN {<<>>} ELSE Upstream(<<>>, watch, today)) :
            /\ games' = [i \in 1..Len(b) |-> parse_game_data(WithIds(b, 0)[i])]
            /\ fetchLog' = Append(fetchLog, [kind |-> kind, n |-> Len(b), via |-> "alternative"])
            /\ IF kind = "ok" \/ AlternativeCatches(kind)
               THEN /\ pc' = IF NoGames(games') THEN "returned" ELSE "found"
                    /\ UNCHANGED exitCode
               ELSE /\ pc' = "done"
                    /\ exitCode' = Some(1)
    /\ UNCHANGED <<variant, localOffset, day, idx, resolved, ics_lines, file, ret>>
    /\ UNCHANGED <<today, watch, cycle, file0, interrupted, titled>>

\* update_ics_file, lines 426-443: the debug print of the first game's time, then
\* generate_ics_content's header (lines 350-359)
Updater_first_game_debug ==
    /\ variant = "Updater" /\ pc = "found"
    /\ resolved' = Call(games[1].game_date, <<>>, <<>>,
                        format_game_time(games[1].game_date, <<>>, <<>>))
    /\ ics_lines' = Header
    /\ pc' = "generate"
    /\ UNCHANGED <<variant, localOffset, day, fetchLog, games, idx, file, ret, exitCode>>
    /\ UNCHANGED <<today, watch, cycle, file0, interrupted, titled>>

\* generate_ics_content, lines 365-398: one turn of the loop; an exception of
\* create_event_summary is caught nowhere and ends the process
Updater_generate_step ==
    /\ variant = "Updater" /\ pc = "generate" /\ idx < Len(games)
    /\ LET g == games[idx + 1]
           game_datetime == IF Truthy(g.game_datetime) THEN g.game_datetime ELSE g.game_date
           t == format_game_time(game_datetime, g.away_name, g.home_name)
           summary == create_event_summary(g)
           away_location == get_team_location(g.away_name)
           home_location == IF away_location.ok THEN Some(get_team_location(g.home_name)) ELSE None
       IN  IF ~Truthy(game_datetime)
           THEN /\ idx' = idx + 1
                /\ UNCHANGED <<pc, resolved, ics_lines, exitCode, titled>>
           ELSE /\ resolved' = Call(game_datetime, g.away_name, g.home_name, t)
                /\ IF UpdaterSkips(t.start, t.end)
                   THEN /\ idx' = idx + 1
                        /\ UNCHANGED <<pc, ics_lines, exitCode, titled>>
                   ELSE IF ~summary.ok
                   THEN /\ pc' = "done"
                        /\ exitCode' = Some(1)
                        /\ titled' = Title(g, None, None, Some(away_location), home_location)
                        /\ UNCHANGED <<idx, ics_lines>>
                   ELSE /\ ics_lines' = ics_lines \o VEvent(g.game_id, t.start, t.end, summary.text,
                                                           g.venue_name, create_event_description(g))
                        /\ titled' = Title(g, Some(summary.text), Some(create_event_description(g)),
                                           Some(away_location), home_location)
                        /\ idx' = idx + 1
                        /\ UNCHANGED <<pc, exitCode>>
    /\ UNCHANGED <<variant, localOffset, day, fetchLog, games, file, ret>>
    /\ UNCHANGED <<today, watch, cycle, file0, interrupted>>

\* lines 400-402 and 445-461: the footer, then open/write with no handler around
\* them: an OSError ends the process
Updater_write ==
    /\ variant = "Updater" /\ pc = "generate" /\ idx = Len(games)
    /\ ics_lines' = ics_lines \o Footer
    /\ \E outcome \in WriteOutcomes :
        /\ file' = FileAfter(outcome, file, ics_lines')
        /\ pc' = IF outcome = "ok" THEN "returned" ELSE "done"
        /\ exitCode' = IF outcome = "ok" THEN exitCode ELSE Some(1)
    /\ UNCHANGED <<variant, localOffset, day, fetchLog, games, idx, resolved, ret>>
    /\ UNCHANGED <<today, watch, cycle, file0, interrupted, titled>>

\* faulty variant: November has no last day
InWindow_OpenEnd(month, d) == (month = 9 /\ d >= 28) \/ (month = 10) \/ (month = 11)

\* line 562: the condition of the __main__ guard
InWindow(month, d) == (month = 9 /\ d >= 28) \/ (month = 10) \/ (month = 11 /\ d <= 3)

\* lines 559-566 and main (514-556): outside the window exit(0); inside, main parses
\* the arguments and calls watch_mode or update_ics_file
main_guard ==
    /\ variant = "Updater" /\ pc = "boot"
    /\ IF InWindow(today[1], today[2])
       THEN /\ pc' = "start"
            /\ cycle' = 1
            /\ UNCHANGED exitCode
       ELSE /\ pc' = "done"
            /\ exitCode' = Some(0)
            /\ UNCHANGED cycle
    /\ UNCHANGED <<variant, localOffset, day, fetchLog, games, idx, resolved, ics_lines, file, ret>>
    /\ UNCHANGED <<today, watch, file0, interrupted, titled>>

\* watch_mode, lines 493-505: update_ics_file returned; get_live_games asks for today's
\* games and catches everything (bare except, line 478); the live games are printed
watch_live_games ==
    /\ variant = "Updater" /\ watch /\ pc = "returned"
    /\ pc' = "sleep"
    /\ UNCHANGED <<variant, localOffset, day, fetchLog, games, idx, resolved, ics_lines, file, ret, exitCode>>
    /\ UNCHANGED <<today, watch, cycle, file0, interrupted, titled>>

Min(a, b) == IF a < b THEN a ELSE b

\* watch_mode, lines 507-508 and 489-490: time.sleep returns and the loop calls
\* update_ics_file again; its locals are new
watch_sleep ==
    /\ variant = "Updater" /\ watch /\ pc = "sleep"
    /\ pc' = "start"
    /\ cycle' = Min(cycle + 1, MaxCycles)
    /\ file0' = file
    /\ day' = 1
    /\ fetchLog' = <<>>
    /\ games' = <<>>
    /\ idx' = 0
    /\ resolved' = NoCall
    /\ titled' = NoTitle
    /\ ics_lines' = <<>>
    /\ UNCHANGED <<variant, localOffset, file, ret, exitCode, today, watch, interrupted>>

\* watch_mode, lines 510-511: a KeyboardInterrupt raised anywhere in the loop but in
\* get_live_games is caught, watch_mode and main return; raised between open() and
\* write() it leaves the file truncated
watch_interrupt ==
    /\ variant = "Updater" /\ watch
    /\ pc \in {"start", "fetch", "alt", "found", "generate", "sleep"}
    /\ pc' = "done"
    /\ exitCode' = Some(0)
    /\ interrupted' = TRUE
    /\ file' \in (IF pc = "generate" /\ idx = Len(games) THEN {file, Some(<<>>)} ELSE {file})
    /\ UNCHANGED <<variant, localOffset, day, fetchLog, games, idx, resolved, ics_lines, ret>>
    /\ UNCHANGED <<today, watch, cycle, file0, titled>>

\* main, lines 553-556: update_ics_file returned
Updater_exit ==
    /\ variant = "Updater" /\ ~watch /\ pc = "returned"
    /\ pc' = "done"
    /\ exitCode' = Some(0)
    /\ UNCHANGED <<variant, localOffset, day, fetchLog, games, idx, resolved, ics_lines, file, ret>>
    /\ UNCHANGED <<today, watch, cycle, file0, interrupted, titled>>

Next ==
    \/ Maker_get_postseason_schedule
    \/ Maker_generate_step
    \/ Maker_save_ics_file
    \/ Maker_exit
    \/ Updater_fetch_day
    \/ Updater_get_alternative_schedule
    \/ Updater_first_game_debug
    \/ Updater_generate_step
    \/ Updater_write
    \/ Updater_exit
    \/ main_guard
    \/ watch_live_games
    \/ watch_sleep
    \/ watch_interrupt

Spec == Init /\ [][Next]_vars

(***************************************************************************)
(* Reading the output                                                      *)
(***************************************************************************)
Range(f) == {f[i] : i \in DOMAIN f}

\* the positions of the BEGIN:VEVENT lines of a text
Begins(lines) == {i \in 1..Len(lines) : lines[i].k = "BEGIN:VEVENT"}
Ends(lines) == {i \in 1..Len(lines) : lines[i].k = "END:VEVENT"}

\* the value of property k of the event that begins at line b
Field(lines, b, k) ==
    LET e == CHOOSE j \in Ends(lines) : j > b /\ \A j2 \in Ends(lines) : j2 > b => j <= j2
    IN  lines[CHOOSE j \in b..e : lines[j].k = k].v

\* the game an event was rendered for (its UID carries the game id)
GameOf(lines, b) == CHOOSE g \in Range(games) : g.game_id = Field(lines, b, "UID")[1]

\* the instant a printed stamp denotes, read independently of strftime
StampSecs(st) == Secs(st.mo, st.d, st.h, st.mi, st.s)

\* the upstream instant of a timestamp that is read as UTC
ReadAsUTC(ts) == ts.shape \in {"Z", "naive"} \/ (ts.shape = "offset" /\ ts.off = 0)
UpstreamInstant(ts) == Secs(ts.mo, ts.d, ts.h, ts.mi, ts.s)

\* 15:08 US/Eastern on the Eastern calendar date of a UTC instant, printed in UTC:
\* 19:08Z of that date under daylight time (until 1 November), 20:08Z from 2 November
Eastern1508(utc) ==
    LET wall == IF utc < Secs(11, 2, 6, 0, 0) THEN utc - 4 * 3600 ELSE utc - 5 * 3600
        date == strftime(wall)
        edt == date.mo < 11 \/ (date.mo = 11 /\ date.d < 2)
    IN  [y |-> 2025, mo |-> date.mo, d |-> date.d, h |-> IF edt THEN 19 ELSE 20, mi |-> 8, s |-> 0]

\* the timestamp generate_ics_content of MLB_PostSeason.py hands to the resolver
EffectiveTS(g) ==
    IF variant = "Updater" /\ ~Truthy(g.game_datetime) THEN g.game_date ELSE g.game_datetime

(***************************************************************************)
(* C1 (as claimed): whenever format_game_time was called with a timestamp  *)
(* that it reads as UTC (Z suffix, +00:00 offset, or no offset), whose     *)
(* minute is 33, and with both teams determined, the start it returned is  *)
(* 15:08 Eastern of the Eastern date of that instant, printed in UTC.      *)
(* The code applies the minute-33 rule to the Z-suffixed shape only.       *)
(***************************************************************************)
C1_Minute33AnyUTCShape ==
    (/\ variant = "Updater" /\ resolved.called
     /\ ReadAsUTC(resolved.ts) /\ resolved.ts.mi = 33
     /\ ~HasPlaceholder(resolved.away) /\ ~HasPlaceholder(resolved.home))
    => resolved.start = Some(Eastern1508(UpstreamInstant(resolved.ts)))

\* the part of C1 the code does implement: the Z-suffixed shape, whatever the hour
C1_Minute33ZShape ==
    (/\ variant = "Updater" /\ resolved.called
     /\ resolved.ts.shape = "Z" /\ resolved.ts.mi = 33
     /\ ~HasPlaceholder(resolved.away) /\ ~HasPlaceholder(resolved.home))
    => resolved.start = Some(Eastern1508(UpstreamInstant(resolved.ts)))

C3_FixedDuration ==
    \A b \in Begins(ics_lines) :
        LET start == Field(ics_lines, b, "DTSTART")
            end == Field(ics_lines, b, "DTEND")
        IN  /\ start # None /\ end # None
            /\ start[1].y = end[1].y
            /\ StampSecs(end[1]) - StampSecs(start[1])
                 = IF variant = "Maker" THEN 3 * 3600 ELSE 3 * 3600 + 30 * 60

\* an event whose end falls in the next month
C3_Witness ==
    \E b \in Begins(ics_lines) :
        /\ Field(ics_lines, b, "DTSTART")[1].mo = 10
        /\ Field(ics_lines, b, "DTEND")[1].mo = 11

(***************************************************************************)
(* Batches and finished output                                             *)
(***************************************************************************)
\* a game with every field its script reads and a timestamp (when it has one) that
\* the script's resolver accepts: an ISO shape; format_game_time accepts only the
\* Z-suffixed shape for a game with a placeholder team (line 146)
CompleteGame(g) ==
    /\ g.gamesInSeries # None
    /\ g.away_name # <<>> /\ g.home_name # <<>>
    /\ EffectiveTS(g).shape \in {"empty", "Z", "offset", "naive", "date"}
    /\ (variant = "Updater" /\ (HasPlaceholder(g.away_name) \/ HasPlaceholder(g.home_name)))
         => EffectiveTS(g).shape \in {"empty", "Z"}

\* the events rendered for a game
EventsOf(g) == {b \in Begins(ics_lines) : Field(ics_lines, b, "UID") = <<g.game_id>>}

\* generate_ics_content was left by an exception
GenerateRaised == pc \in {"saved", "done"} /\ idx < Len(games) /\ ~interrupted

\* generate_ics_content returned its text (the footer is in place)
OutputDone ==
    /\ pc \in {"saved", "returned", "sleep", "done"} /\ ~interrupted
    /\ idx = Len(games)
    /\ Len(ics_lines) > 0

TimeResolves(g) ==
    IF variant = "Maker"
    THEN get_game_date_time(g, localOffset).start # None
    ELSE Truthy(EffectiveTS(g)) /\ format_game_time(EffectiveTS(g), g.away_name, g.home_name).start # None

IsEventMarker(line) == line.k \in {"BEGIN:VEVENT", "END:VEVENT"}
IsUid(line) == line.k = "UID"

C5_EnvelopeAndEvents ==
    OutputDone =>
        LET markers == SelectSeq(ics_lines, IsEventMarker)
            uids == SelectSeq(ics_lines, IsUid)
            expected == SelectSeq(games, TimeResolves)
        IN  /\ ics_lines[1].k = "BEGIN:VCALENDAR"
            /\ ics_lines[Len(ics_lines)].k = "END:VCALENDAR"
            /\ Cardinality({i \in 1..Len(ics_lines) : ics_lines[i].k = "BEGIN:VCALENDAR"}) = 1
            /\ Cardinality({i \in 1..Len(ics_lines) : ics_lines[i].k = "END:VCALENDAR"}) = 1
            /\ Len(markers) = 2 * Len(expected)
            /\ \A i \in 1..Len(markers) :
                 markers[i].k = IF i % 2 = 1 THEN "BEGIN:VEVENT" ELSE "END:VEVENT"
            /\ Len(uids) = Len(expected)
            /\ \A i \in 1..Len(uids) : uids[i].v = <<expected[i].game_id>>
            /\ (games = <<>> => ics_lines = Header \o Footer)

\* a returned text for two games of which only the second resolved
C5_Witness ==
    /\ OutputDone /\ Len(games) = 2
    /\ ~TimeResolves(games[1]) /\ TimeResolves(games[2])
    /\ Cardinality(Begins(ics_lines)) = 1

(***************************************************************************)
(* C6                                                                      *)
(***************************************************************************)
IsPrefix(p, t) == Len(p) <= Len(t) /\ \A i \in 1..Len(p) : t[i] = p[i]
ContainsSeq(p, t) ==
    \E k \in 0..(Len(t) - Len(p)) : \A i \in 1..Len(p) : t[k + i] = p[i]

\* the case of the claim: Division Series, both teams determined, best of five,
\* the away side ahead and below the three wins that clinch
C6_Case(g) ==
    /\ g.game_type = "D" /\ g.gamesInSeries = Some(5) /\ g.league # ""
    /\ ~HasPlaceholder(g.away_name) /\ ~HasPlaceholder(g.home_name)
    /\ g.away_name # <<>> /\ g.home_name # <<>>
    /\ g.away_wins > g.home_wins /\ g.away_wins < 3

C6_Prefix(g) == <<g.league, "DS", ToString(g.series_game_number)>>
C6_Tally(g) == <<"(", ToString(g.away_wins), "-", ToString(g.home_wins), ")">>
C6_AwayShort(g) ==
    IF variant = "Maker" THEN <<g.away_short>> ELSE Join(get_team_location(g.away_name).text)

(***************************************************************************)
(* C6 (as claimed): whatever the game status, the summary of such a game   *)
(* begins with the league, DS and the game number, and contains the tally  *)
(* (a-h) and the Leads marker naming the away short name.                  *)
(***************************************************************************)
C6_LeadsSummaryAnyStatus ==
    \A b \in Begins(ics_lines) :
        LET g == GameOf(ics_lines, b)
            summary == Field(ics_lines, b, "SUMMARY")
        IN  C6_Case(g) =>
              /\ IsPrefix(C6_Prefix(g), summary)
              /\ ContainsSeq(C6_Tally(g), summary)
              /\ ContainsSeq(C6_AwayShort(g) \o <<" ", "Leads">>, summary)

(***************************************************************************)
(* C6 (amended): in MLB_API.py the summary of such a game begins with the  *)
(* league, DS and the game number; when the game is finished (status code  *)
(* containing F) it contains the tally (a-h) and the Leads marker naming   *)
(* the away short name, and when it is not finished it contains neither.   *)
(* The summary of MLB_PostSeason.py never contains the tally or a marker.  *)
(***************************************************************************)
C6_LeadsSummaryWhenFinished ==
    \A b \in Begins(ics_lines) :
        LET g == GameOf(ics_lines, b)
            summary == Field(ics_lines, b, "SUMMARY")
        IN  C6_Case(g) =>
              IF variant = "Maker"
              THEN /\ IsPrefix(C6_Prefix(g), summary)
                   /\ IF IsFinishedCode(g.statusCode)
                      THEN /\ ContainsSeq(C6_Tally(g), summary)
                           /\ ContainsSeq(<<g.away_short, " ", "Leads">>, summary)
                      ELSE /\ ~ContainsSeq(<<"(">>, summary)
                           /\ ~ContainsSeq(<<"Leads">>, summary)
              ELSE /\ ~ContainsSeq(<<"(">>, summary)
                   /\ ~ContainsSeq(<<"Leads">>, summary)

\* the spec's example: a finished game 3 at 2-1 rendered by MLB_API.py
C6_Witness ==
    \E b \in Begins(ics_lines) :
        LET g == GameOf(ics_lines, b)
        IN  /\ variant = "Maker" /\ C6_Case(g) /\ IsFinishedCode(g.statusCode)
            /\ g.away_wins = 2 /\ g.home_wins = 1
            /\ ContainsSeq(<<"Leads">>, Field(ics_lines, b, "SUMMARY"))

(***************************************************************************)
(* C7: the resolver's last call returned both a start and an end or        *)
(* neither, and neither for a timestamp no parser accepts; every emitted   *)
(* event has a DTSTART and a DTEND that are not empty.                     *)
(***************************************************************************)
C7_BothOrNeither ==
    /\ resolved.called =>
         /\ (resolved.start = None) <=> (resolved.end = None)
         /\ resolved.ts.shape \in {"garbage", "empty"} => resolved.start = None /\ resolved.end = None
    /\ \A b \in Begins(ics_lines) :
         Field(ics_lines, b, "DTSTART") # None /\ Field(ics_lines, b, "DTEND") # None

\* the resolver was handed an unparseable timestamp, returned neither, and the loop
\* went on to the end of the batch
C7_Witness ==
    /\ resolved.called /\ resolved.ts.shape = "garbage"
    /\ resolved.start = None /\ resolved.end = None
    /\ OutputDone /\ Len(games) = 2 /\ Cardinality(Begins(ics_lines)) = 1

(***************************************************************************)
(* C8: no schedule request that fails ends the process or adds a game: the *)
(* process never stops before generate_ics_content has begun; a failed     *)
(* request contributes nothing, so the batch holds exactly the games of    *)
(* the requests that succeeded (none when every request failed); and in    *)
(* MLB_PostSeason.py every day of the window has been requested once the   *)
(* per-day loop is left, whatever failed.                                  *)
(***************************************************************************)
RECURSIVE Fetched(_)
Fetched(log) == IF log = <<>> THEN 0 ELSE log[1].n + Fetched(Tail(log))

C8_FetchFailureContained ==
    /\ exitCode = Some(1) => Len(ics_lines) > 0
    /\ \A i \in 1..Len(fetchLog) : fetchLog[i].kind # "ok" => fetchLog[i].n = 0
    /\ Len(games) = Fetched(fetchLog)
    /\ (fetchLog # <<>> /\ \A i \in 1..Len(fetchLog) : fetchLog[i].kind # "ok") => games = <<>>
    /\ (variant = "Updater" /\ cycle > 0 /\ ~interrupted /\ pc \notin {"start", "fetch"})
         => /\ day = MaxDays + 1
            /\ Len(fetchLog) >= MaxDays

\* MLB_PostSeason.py: the first day's request failed, a later day's request brought
\* games, and the process went on to render them
C8_Witness ==
    /\ variant = "Updater" /\ pc = "generate"
    /\ fetchLog[1].kind = "error"
    /\ fetchLog[Len(fetchLog)].kind = "ok" /\ fetchLog[Len(fetchLog)].n > 0
    /\ Len(games) > 0

(***************************************************************************)
(* C9 (as claimed): in both scripts, when the write of the calendar file   *)
(* was attempted, the process ends with exit code 0, and a file that does  *)
(* not hold the rendered text comes with the failure flag False.           *)
(* MLB_PostSeason.py has no handler around open/write (lines 449-450).     *)
(***************************************************************************)
WriteAttempted ==
    /\ idx = Len(games) /\ Len(ics_lines) > 0
    /\ ics_lines[Len(ics_lines)].k = "END:VCALENDAR"

C9_WriteErrorSwallowed ==
    (pc = "done" /\ WriteAttempted /\ ~interrupted) =>
        /\ exitCode = Some(0)
        /\ file # Some(ics_lines) => ret = Some(FALSE)

(***************************************************************************)
(* C10 (as claimed): when the process has ended on a batch with exactly    *)
(* one malformed record (no gamesInSeries for MLB_API.py, an empty team    *)
(* name for MLB_PostSeason.py) among complete games, generate_ics_content  *)
(* went through the whole batch, every complete game with a timestamp has  *)
(* its VEVENT, and the write of the file was attempted.                    *)
(***************************************************************************)
Malformed(g) ==
    IF variant = "Maker" THEN g.gamesInSeries = None
    ELSE g.away_name = <<>> \/ g.home_name = <<>>

C10_MalformedRecordSkipped ==
    (/\ pc = "done" /\ ~interrupted
     /\ Cardinality({i \in 1..Len(games) : Malformed(games[i])}) = 1
     /\ \A i \in 1..Len(games) : Malformed(games[i]) \/ CompleteGame(games[i]))
    => /\ WriteAttempted
       /\ \A i \in 1..Len(games) :
            (CompleteGame(games[i]) /\ Truthy(EffectiveTS(games[i])))
                => Cardinality(EventsOf(games[i])) = 1

(***************************************************************************)
(* C11: MLB_PostSeason.py started on a date outside 28 September to        *)
(* 3 November never calls update_ics_file: it makes no schedule request,   *)
(* leaves the calendar file as it was, and ends with exit code 0; started  *)
(* on a date inside the window it goes on into main, which calls           *)
(* update_ics_file.                                                        *)
(***************************************************************************)
\* the start date lies between 28 September and 3 November, by the day of the year
StartedInWindow ==
    LET t == Secs(today[1], today[2], 0, 0, 0)
    IN  Secs(9, 28, 0, 0, 0) <= t /\ t <= Secs(11, 3, 0, 0, 0)

C11_WindowGate ==
    variant = "Updater" =>
        IF StartedInWindow
        THEN pc # "boot" => cycle >= 1
        ELSE /\ cycle = 0 /\ fetchLog = <<>> /\ games = <<>> /\ ics_lines = <<>>
             /\ file = file0
             /\ pc \in {"boot", "done"}
             /\ pc = "done" => exitCode = Some(0)

\* started on 4 November: the process has ended with exit code 0 and the calendar file
\* of an earlier run is as it was
C11_Witness ==
    /\ variant = "Updater" /\ today = <<11, 4>>
    /\ pc = "done" /\ exitCode = Some(0)
    /\ fetchLog = <<>> /\ file = Some(StaleFile)

(***************************************************************************)
(* C12 (as claimed): MLB_PostSeason.py in watch mode, on batches of        *)
(* complete games, ends only on a KeyboardInterrupt: whatever the outcome  *)
(* of a cycle, the write error included, the process goes on to the sleep  *)
(* and the next cycle.  watch_mode catches KeyboardInterrupt only (line    *)
(* 510), and update_ics_file has no handler around open/write.             *)
(***************************************************************************)
C12_WatchEndsOnlyOnInterrupt ==
    (/\ variant = "Updater" /\ watch /\ cycle >= 1
     /\ \A i \in 1..Len(games) : CompleteGame(games[i])
     /\ pc = "done")
    => interrupted

\* the scheduling of watch mode: get_live_games returns and time.sleep returns
FairSpec == Spec /\ WF_vars(watch_live_games) /\ WF_vars(watch_sleep)

\* the part of C12 the code does implement: a call of update_ics_file that returned
\* (games written, or no games found, whatever requests failed) is followed by the
\* sleep, and the sleep by the next call or by the interrupt
C12_ReturnedCycleRepeats ==
    /\ (variant = "Updater" /\ watch /\ pc = "returned") ~> (pc = "sleep")
    /\ (pc = "sleep") ~> (pc = "start" \/ interrupted)

(***************************************************************************)
(* C13                                                                     *)
(***************************************************************************)
\* generate_ics_content of MLB_PostSeason.py (lines 348-402) as a function of the
\* batch alone, for a batch on which it raises nothing
RECURSIVE Updater_events(_)
Updater_events(batch) ==
    IF batch = <<>> THEN <<>>
    ELSE LET g == batch[1]
             game_datetime == IF Truthy(g.game_datetime) THEN g.game_datetime ELSE g.game_date
             t == format_game_time(game_datetime, g.away_name, g.home_name)
         IN  (IF ~Truthy(game_datetime) \/ UpdaterSkips(t.start, t.end) THEN <<>>
              ELSE VEvent(g.game_id, t.start, t.end, create_event_summary(g).text,
                          g.venue_name, create_event_description(g)))
             \o Updater_events(Tail(batch))

Updater_generate_ics_content(batch) == Header \o Updater_events(batch) \o Footer

\* a call of update_ics_file has returned
CycleEnded ==
    /\ variant = "Updater" /\ cycle >= 1 /\ ~interrupted
    /\ pc \in {"returned", "sleep"} \/ (pc = "done" /\ exitCode = Some(0))

(***************************************************************************)
(* C13 (as claimed): when a call of update_ics_file has returned, the      *)
(* calendar file holds the rendering of the games fetched in that call     *)
(* (header and footer alone when it fetched none), whatever the file held  *)
(* before.                                                                 *)
(***************************************************************************)
C13_FileFromCycleDataAlone ==
    CycleEnded => file = Some(Updater_generate_ics_content(games))

(***************************************************************************)
(* C13 (amended): when a call of update_ics_file that found at least one   *)
(* game has returned, the calendar file holds the rendering of the games   *)
(* fetched in that call, whatever the file held before; a call that found  *)
(* no game leaves the file as it was when the call began.                  *)
(***************************************************************************)
C13_FileFromCycleDataWhenGamesFound ==
    CycleEnded =>
        IF games # <<>>
        THEN file = Some(Updater_generate_ics_content(games))
        ELSE file = file0

\* the second cycle of watch mode has written a game over the other game that the
\* first cycle wrote
C13_Witness ==
    /\ CycleEnded /\ watch /\ cycle = 2 /\ pc = "sleep"
    /\ games # <<>>
    /\ file0 # None /\ Begins(file0[1]) # {} /\ file0 # file
    /\ file = Some(Updater_generate_ics_content(games))

(***************************************************************************)
(* C14                                                                     *)
(***************************************************************************)
\* a summary without its blanks and without the mark of a final game
StripMarks(text) == SelectSeq(text, LAMBDA x : x \notin {" ", "CHECK"})

\* the series code of a game type
C14_Code(game_type) ==
    CASE game_type = "F" -> "WC"
      [] game_type = "D" -> "DS"
      [] game_type = "L" -> "CS"
      [] OTHER -> "WS"

\* the league the script has for a game: MLB_API.py reads the home team's league,
\* MLB_PostSeason.py looks for AL or NL in the series description
C14_League(g) ==
    IF variant = "Maker" THEN (IF g.league = "" THEN <<>> ELSE <<g.league>>)
    ELSE IF \E i \in 1..Len(g.series_description) : g.series_description[i] = "AL" THEN <<"AL">>
    ELSE IF \E i \in 1..Len(g.series_description) : g.series_description[i] = "NL" THEN <<"NL">>
    ELSE <<>>

(***************************************************************************)
(* C14 (as claimed): the summary of every event of a postseason game       *)
(* begins with its series code: WC, DS, CS or WS for type F, D, L or W,    *)
(* with the league before it for DS and CS and nothing before it for WC    *)
(* and WS, and the series game number after it.                            *)
(***************************************************************************)
C14_LeaguePrefixForDSAndCSOnly ==
    \A b \in Begins(ics_lines) :
        LET g == GameOf(ics_lines, b)
            summary == StripMarks(Field(ics_lines, b, "SUMMARY"))
            code == <<C14_Code(g.game_type), ToString(g.series_game_number)>>
        IN  g.game_type \in {"F", "D", "L", "W"} =>
              IF g.game_type \in {"D", "L"}
              THEN IsPrefix(C14_League(g) \o code, summary)
              ELSE IsPrefix(code, summary)

(***************************************************************************)
(* C14 (amended): the summary of every event of a postseason game begins   *)
(* with its series code, WC, DS, CS or WS for type F, D, L or W, followed  *)
(* by the series game number (after a blank in MLB_PostSeason.py).         *)
(* MLB_API.py puts the home team's league before WC, DS and CS and nothing *)
(* before WS; MLB_PostSeason.py puts AL or NL before DS and CS when the    *)
(* series description names it, and nothing before WC and WS.              *)
(***************************************************************************)
C14_LeaguePrefixPerVariant ==
    \A b \in Begins(ics_lines) :
        LET g == GameOf(ics_lines, b)
            summary == StripMarks(Field(ics_lines, b, "SUMMARY"))
            code == <<C14_Code(g.game_type), ToString(g.series_game_number)>>
            prefixed == IF variant = "Maker" THEN {"F", "D", "L"} ELSE {"D", "L"}
        IN  g.game_type \in {"F", "D", "L", "W"} =>
              IF g.game_type \in prefixed
              THEN IsPrefix(C14_League(g) \o code, summary)
              ELSE IsPrefix(code, summary)

\* MLB_API.py has rendered a Wild Card game of the American League as ALWC2
C14_Witness ==
    \E b \in Begins(ics_lines) :
        LET g == GameOf(ics_lines, b)
        IN  /\ variant = "Maker" /\ g.game_type = "F" /\ g.league = "AL"
            /\ IsPrefix(<<"AL", "WC", "2">>, Field(ics_lines, b, "SUMMARY"))

(***************************************************************************)
(* C15                                                                     *)
(***************************************************************************)
\* a finished postseason game of a best-of-3, -5 or -7 series, rendered by MLB_API.py
C15_Case(g) ==
    /\ variant = "Maker" /\ IsFinishedCode(g.statusCode)
    /\ g.game_type \in {"F", "D", "L", "W"}
    /\ g.gamesInSeries \in {Some(3), Some(5), Some(7)}

\* the wins that clinch a best-of-N series, N odd
C15_Threshold(g) == (g.gamesInSeries[1] + 1) \div 2

C15_Won(short, summary) == ContainsSeq(<<short, " ", "Wins">>, summary)
C15_Leads(g, short, summary) ==
    /\ ContainsSeq(<<"(", ToString(g.away_wins), "-", ToString(g.home_wins), ")">>, summary)
    /\ ContainsSeq(<<short, " ", "Leads">>, summary)
C15_Tied(g, summary) ==
    /\ ContainsSeq(<<"(", ToString(g.away_wins), "-", ToString(g.home_wins), ")">>, summary)
    /\ ContainsSeq(<<"Tied">>, summary)
C15_NoOther(words, summary) ==
    \A w \in {"Wins", "Leads", "Tied"} \ words : ~ContainsSeq(<<w>>, summary)

(***************************************************************************)
(* C15 (as claimed): in the summary of such a game the won marker names a  *)
(* side exactly when that side's wins are at least floor(N/2)+1; when      *)
(* neither side is there, the leads marker with the tally names the side   *)
(* with more wins, and with equal wins the tied marker stands.             *)
(***************************************************************************)
C15_WonExactlyAtThreshold ==
    \A b \in Begins(ics_lines) :
        LET g == GameOf(ics_lines, b)
            summary == Field(ics_lines, b, "SUMMARY")
            need == C15_Threshold(g)
        IN  C15_Case(g) =>
              /\ C15_Won(g.away_short, summary) <=> g.away_wins >= need
              /\ C15_Won(g.home_short, summary) <=> g.home_wins >= need
              /\ (g.away_wins < need /\ g.home_wins < need) =>
                    IF g.away_wins > g.home_wins THEN C15_Leads(g, g.away_short, summary)
                    ELSE IF g.home_wins > g.away_wins THEN C15_Leads(g, g.home_short, summary)
                    ELSE C15_Tied(g, summary)

(***************************************************************************)
(* C15 (amended): in the summary of such a game only the side with         *)
(* strictly more wins is named: by the won marker when its wins are at     *)
(* least floor(N/2)+1, by the leads marker with the tally when they are    *)
(* below; with equal wins the tied marker with the tally stands, whatever  *)
(* the counts; and the summary holds one marker only.                      *)
(***************************************************************************)
C15_MarkerOfTheSideAhead ==
    \A b \in Begins(ics_lines) :
        LET g == GameOf(ics_lines, b)
            summary == Field(ics_lines, b, "SUMMARY")
            need == C15_Threshold(g)
            ahead == IF g.away_wins > g.home_wins THEN g.away_short ELSE g.home_short
            more == IF g.away_wins > g.home_wins THEN g.away_wins ELSE g.home_wins
        IN  C15_Case(g) =>
              IF g.away_wins = g.home_wins
              THEN C15_Tied(g, summary) /\ C15_NoOther({"Tied"}, summary)
              ELSE IF more >= need
              THEN C15_Won(ahead, summary) /\ C15_NoOther({"Wins"}, summary)
              ELSE C15_Leads(g, ahead, summary) /\ C15_NoOther({"Leads"}, summary)

\* a best-of-5 game at 3-3, both sides at the threshold, is rendered with the tied marker
C15_Witness ==
    \E b \in Begins(ics_lines) :
        LET g == GameOf(ics_lines, b)
            summary == Field(ics_lines, b, "SUMMARY")
        IN  /\ C15_Case(g)
            /\ g.gamesInSeries = Some(5) /\ g.away_wins = 3 /\ g.home_wins = 3
            /\ C15_Tied(g, summary)

(***************************************************************************)
(* C16                                                                     *)
(***************************************************************************)
\* the game of the summary builder's last call
TitledGame == CHOOSE g \in Range(games) : g.game_id = titled.game_id

\* the lookup table's entries for the names of the games
C16_Table ==
    {<<<<"New", "York", "Yankees">>, <<"NY", "Yankees">>>>,
     <<<<"Los", "Angeles", "Dodgers">>, <<"LA", "Dodgers">>>>}

\* what the claim gives for a name
C16_Expected(name) ==
    IF \E e \in C16_Table : e[1] = name THEN (CHOOSE e \in C16_Table : e[1] = name)[2]
    ELSE IF \E i \in 1..Len(name) : name[i] \in {"TBD", "Winner", "Lower", "Higher"} THEN name
    ELSE IF Len(name) > 1 /\ name[1] = "St." THEN SubSeq(name, 1, 2)
    ELSE SubSeq(name, 1, 1)

\* the calls of get_team_location of the summary builder's last call: name and result
C16_Calls ==
    IF variant # "Updater" \/ ~titled.called THEN {}
    ELSE {<<TitledGame.away_name, titled.away_location[1]>>}
         \cup (IF titled.home_location = None THEN {}
               ELSE {<<TitledGame.home_name, titled.home_location[1]>>})

(***************************************************************************)
(* C16 (as claimed): every call of get_team_location returned a string,    *)
(* for the empty name too: the table's entry for a name of the table, the  *)
(* name itself when it holds a placeholder marker, the first two words     *)
(* when the first ends with a dot, the first word otherwise.               *)
(***************************************************************************)
C16_TeamLocationOfEveryName ==
    \A c \in C16_Calls : c[2].ok /\ c[2].text = C16_Expected(c[1])

\* the part of C16 the code does implement: every name with a word in it
C16_TeamLocationOfNonEmptyName ==
    \A c \in C16_Calls : c[1] # <<>> => (c[2].ok /\ c[2].text = C16_Expected(c[1]))

(***************************************************************************)
(* C17                                                                     *)
(***************************************************************************)
\* the game is final for the script that renders it
C17_Final(g) == IF variant = "Maker" THEN IsFinishedCode(g.statusCode) ELSE g.status = "Final"

\* the upstream record holds runs (the game is under way or over)
C17_Played(g) == g.away_score > 0 /\ g.home_score > 0

\* a text shows the runs of a side
C17_HasScore(g, text) ==
    ContainsSeq(<<ToString(g.away_score)>>, text) \/ ContainsSeq(<<ToString(g.home_score)>>, text)

\* the short names of the two sides as the script shows them
C17_Short(g, side) ==
    IF variant = "Maker" THEN <<IF side = "away" THEN g.away_short ELSE g.home_short>>
    ELSE Join(get_team_location(IF side = "away" THEN g.away_name ELSE g.home_name).text)

(***************************************************************************)
(* C17 (as claimed): in both scripts the SUMMARY of an event never shows   *)
(* the runs; the DESCRIPTION shows them for a final game and not for a     *)
(* game that is not final; and the summary of a game that is not final     *)
(* shows the short names as away @ home.                                   *)
(***************************************************************************)
C17_ScoreInDescriptionOnly ==
    \A b \in Begins(ics_lines) :
        LET g == GameOf(ics_lines, b)
            summary == Field(ics_lines, b, "SUMMARY")
            description == Field(ics_lines, b, "DESCRIPTION")
        IN  /\ C17_Played(g) =>
                 /\ ~C17_HasScore(g, summary)
                 /\ C17_HasScore(g, description) <=> C17_Final(g)
            /\ ~C17_Final(g) =>
                 ContainsSeq(C17_Short(g, "away") \o <<" ", "@", " ">> \o C17_Short(g, "home"), summary)

(***************************************************************************)
(* C17 (amended): MLB_API.py never shows the runs in the SUMMARY; its      *)
(* DESCRIPTION shows them for a finished game only; the summary of a game  *)
(* that is not finished ends with the short names as away - home.          *)
(* MLB_PostSeason.py shows the runs of a final game in the SUMMARY, as     *)
(* away runs @ home runs, and in the DESCRIPTION; for a game that is not   *)
(* final neither field shows them and the summary ends with away @ home.   *)
(***************************************************************************)
C17_ScorePlacementPerVariant ==
    \A b \in Begins(ics_lines) :
        LET g == GameOf(ics_lines, b)
            summary == Field(ics_lines, b, "SUMMARY")
            description == Field(ics_lines, b, "DESCRIPTION")
            away == C17_Short(g, "away")
            home == C17_Short(g, "home")
            sep == IF variant = "Maker" THEN "-" ELSE "@"
            teams == away \o <<" ", sep, " ">> \o home
        IN  /\ C17_Played(g) =>
                 /\ C17_HasScore(g, description) <=> C17_Final(g)
                 /\ C17_HasScore(g, summary) <=> (variant = "Updater" /\ C17_Final(g))
            /\ (variant = "Updater" /\ C17_Final(g)) =>
                 ContainsSeq(away \o <<" ", ToString(g.away_score), " ", "@", " ">>
                             \o home \o <<" ", ToString(g.home_score)>>, summary)
            /\ ~C17_Final(g) =>
                 /\ Len(summary) >= Len(teams)
                 /\ SubSeq(summary, Len(summary) - Len(teams) + 1, Len(summary)) = teams

\* MLB_PostSeason.py has rendered a final game with the runs in the summary and in
\* the description
C17_Witness ==
    \E b \in Begins(ics_lines) :
        LET g == GameOf(ics_lines, b)
        IN  /\ C17_Final(g) /\ C17_Played(g) /\ variant = "Updater"
            /\ C17_HasScore(g, Field(ics_lines, b, "SUMMARY"))
            /\ C17_HasScore(g, Field(ics_lines, b, "DESCRIPTION"))

(***************************************************************************)
(* C18: in update_ics_file of MLB_PostSeason.py the alternative fetch is   *)
(* made only after every day of the per-day fetch was requested and none   *)
(* brought a game; a call that returned with no game from either fetch     *)
(* rendered nothing and left the calendar file as it was when the call     *)
(* began; and the file differs from what it was when the call began only   *)
(* in a call that found at least one game.                                 *)
(***************************************************************************)
C18_WriteOnlyWhenGamesFound ==
    (variant = "Updater" /\ cycle >= 1) =>
        /\ \A i \in 1..Len(fetchLog) :
             fetchLog[i].via = "alternative" =>
                /\ i = MaxDays + 1
                /\ \A j \in 1..(i - 1) : fetchLog[j].via = "daily" /\ fetchLog[j].n = 0
        /\ (CycleEnded /\ games = <<>>) =>
                /\ Len(fetchLog) = MaxDays + 1
                /\ fetchLog[MaxDays + 1].via = "alternative"
                /\ ics_lines = <<>>
                /\ file = file0
        /\ file # file0 => games # <<>>

\* the second cycle of watch mode found no game in either fetch and has returned: the
\* file holds the event that the first cycle wrote
C18_Witness ==
    /\ CycleEnded /\ watch /\ cycle = 2 /\ pc = "sleep"
    /\ games = <<>> /\ Len(fetchLog) = MaxDays + 1
    /\ file # None /\ Begins(file[1]) # {} /\ file = file0

====
